---- MODULE Spec2Model ----
(***************************************************************************)
(* Model of tsuru/installer/install.go: the Install.Run orchestration, the *)
(* machine pool allocator (ProvisionMachines), the apps pool policy        *)
(* (ProvisionPool), host registration (addInstallHosts) and Uninstall.Run. *)
(* One Install run is followed, optionally, by one Uninstall run.          *)
(***************************************************************************)
EXTENDS Integers, Sequences, FiniteSets, TLC

\* ------------------------------------------------------------------ bounds
\* Largest hosts:core:size and hosts:apps:size a configuration document names.
MaxCoreHosts == 2
MaxAppsHosts == 3

\* ------------------------------------------------------------------ inputs
\* Machine names the provisioner may hand out (two machines may share one).
Names == {"m1", "m2"}
\* Option keys: the user's per-host option and the injected open-port option.
ZoneKey == "zone"
OpenPortKey == "driver-open-port"
Absent == "absent"
NotAMapping == "not-a-mapping"
Cause == "cause"
NoErr == <<>>

\* A YAML value of an options block: a scalar or a sequence of scalars.
YamlValues ==
    { [seq |-> FALSE, items |-> <<"a">>],
      [seq |-> TRUE, items |-> <<>>],
      [seq |-> TRUE, items |-> <<"a">>],
      [seq |-> TRUE, items |-> <<"a", "b">>] }

EmptyMap == [k \in {} |-> <<>>]

\* An options block of the document: absent, present but no mapping, or a
\* mapping from option names to YAML values.
OptsBlocks ==
    { [kind |-> Absent, map |-> EmptyMap], [kind |-> NotAMapping, map |-> EmptyMap] }
    \cup { [kind |-> "map", map |-> EmptyMap] }
    \cup { [kind |-> "map", map |-> (ZoneKey :> v)] : v \in YamlValues }

\* A value the user gives for the open-port option.
UserPort == [seq |-> FALSE, items |-> <<"9999">>]

\* The core options block may also name the open-port option itself.
CoreOptsBlocks ==
    OptsBlocks
    \cup { [kind |-> "map", map |-> (OpenPortKey :> UserPort)] }

\* The driver:options block: its values are kept as they are.
DriverOptsBlocks ==
    { [kind |-> Absent, map |-> EmptyMap], [kind |-> NotAMapping, map |-> EmptyMap],
      [kind |-> "map", map |-> ("access-key" :> [seq |-> FALSE, items |-> <<"a">>])] }

\* A key the document does not have (val is a placeholder nothing reads).
Missing(T) == [set |-> FALSE, val |-> CHOOSE y \in T : TRUE]
Unset(T) == { Missing(T) }
Set(T) == { [set |-> TRUE, val |-> x] : x \in T }

\* The configuration documents: every recognized key may be absent.
Docs ==
    [ driverName : Unset({"amazonec2"}) \cup Set({"amazonec2"}),
      name       : Unset({"tsuru-ec2"}) \cup Set({"tsuru-ec2"}),
      hub        : Unset({"mirror"}) \cup Set({"mirror"}),
      driverOpts : DriverOptsBlocks,
      caPath     : Unset({"/ca"}) \cup Set({"/ca"}),
      coreSize   : Unset(0..MaxCoreHosts) \cup Set(0..MaxCoreHosts),
      appsSize   : Unset(0..MaxAppsHosts) \cup Set(0..MaxAppsHosts),
      dedicated  : Unset(BOOLEAN) \cup Set(BOOLEAN),
      coreOpts   : CoreOptsBlocks,
      appsOpts   : OptsBlocks ]

\* The documents the Install runs are checked with: the keys that do not
\* steer the orchestration (driver name, installation name, image mirror, CA
\* path, the values of driver:options) are left out of them.
InstallDocs ==
    [ driverName : Unset({"amazonec2"}),
      name       : Unset({"tsuru-ec2"}),
      hub        : Unset({"mirror"}),
      driverOpts : { b \in DriverOptsBlocks : b.kind # "map" },
      caPath     : Unset({"/ca"}),
      coreSize   : Unset(0..MaxCoreHosts) \cup Set(0..MaxCoreHosts),
      appsSize   : Unset(0..MaxAppsHosts) \cup Set(0..MaxAppsHosts),
      dedicated  : Unset(BOOLEAN) \cup Set(BOOLEAN),
      coreOpts   : CoreOptsBlocks,
      appsOpts   : OptsBlocks ]

\* No document was read.
NoDoc ==
    [ driverName |-> Missing({"amazonec2"}),
      name       |-> Missing({"tsuru-ec2"}),
      hub        |-> Missing({"mirror"}),
      driverOpts |-> [kind |-> Absent, map |-> EmptyMap],
      caPath     |-> Missing({"/ca"}),
      coreSize   |-> Missing(0..MaxCoreHosts),
      appsSize   |-> Missing(0..MaxAppsHosts),
      dedicated  |-> Missing(BOOLEAN),
      coreOpts   |-> [kind |-> Absent, map |-> EmptyMap],
      appsOpts   |-> [kind |-> Absent, map |-> EmptyMap] ]

\* ------------------------------------------------------------------ config
\* Mutant of defaultTsuruInstallConfig: the apps pool is dedicated by default.
DefaultWithDedicatedApps ==
    [ DriverName         |-> "virtualbox",
      Name               |-> "tsuru",
      DockerHubMirror    |-> "",
      DriverOpts         |-> EmptyMap,
      CAPath             |-> "",
      CoreHosts          |-> 1,
      AppsHosts          |-> 1,
      DedicatedAppsHosts |-> TRUE,
      CoreDriversOpts    |-> EmptyMap,
      AppsDriversOpts    |-> EmptyMap ]

\* What defaultTsuruInstallConfig points to when the process starts.  The
\* fields of dm.DefaultDockerMachineConfig are the single-host VirtualBox
\* installation the command's description documents.
defaultTsuruInstallConfig ==
    [ DriverName         |-> "virtualbox",
      Name               |-> "tsuru",
      DockerHubMirror    |-> "",
      DriverOpts         |-> EmptyMap,
      CAPath             |-> "",
      CoreHosts          |-> 1,
      AppsHosts          |-> 1,
      DedicatedAppsHosts |-> FALSE,
      CoreDriversOpts    |-> EmptyMap,
      AppsDriversOpts    |-> EmptyMap ]

\* parseDriverOptsSlice: a scalar becomes a one-element list, a sequence is
\* kept as it is; a block that is no mapping is an error.
parseDriverOptsSlice(opts) ==
    IF opts.kind = NotAMapping
    THEN [ok |-> FALSE, opts |-> EmptyMap]
    ELSE [ok |-> TRUE,
          opts |-> [k \in DOMAIN opts.map |->
                      IF opts.map[k].seq THEN opts.map[k].items
                      ELSE <<opts.map[k].items[1]>>]]

\* Mutant of Overlay: the key's value is written whether it was read or not.
OverlayAlways(got, old) == got.val

\* if err == nil { installConfig.X = x }
Overlay(got, old) == IF got.set THEN got.val ELSE old

\* opts.(map[interface{}]interface{}) on driver:options: the single-value
\* type assertion panics when the block is no mapping.
DriverOptsOutcome(block) ==
    IF block.kind = NotAMapping THEN "panic" ELSE "ok"

\* parseConfigFile on a readable document, with installConfig the plan the
\* global default points to: the recognized keys are written into it one
\* after the other, and it is what the call returns.  outcome is "ok",
\* "error" (nil and an error are returned) or "panic"; cfg is installConfig
\* as the call leaves it.
parseConfigFile(doc, installConfig) ==
    LET c1 == [installConfig EXCEPT
                 !.DriverName = Overlay(doc.driverName, @),
                 !.Name = Overlay(doc.name, @),
                 !.DockerHubMirror = Overlay(doc.hub, @)]
        c2 == [c1 EXCEPT
                 !.DriverOpts = IF doc.driverOpts.kind = "map"
                                THEN [k \in DOMAIN doc.driverOpts.map |->
                                        doc.driverOpts.map[k].items]
                                ELSE @]
        c3 == [c2 EXCEPT
                 !.CAPath = Overlay(doc.caPath, @),
                 !.CoreHosts = Overlay(doc.coreSize, @),
                 !.AppsHosts = Overlay(doc.appsSize, @),
                 !.DedicatedAppsHosts = Overlay(doc.dedicated, @)]
        core == parseDriverOptsSlice(doc.coreOpts)
        c4 == IF doc.coreOpts.kind = Absent THEN c3
              ELSE [c3 EXCEPT !.CoreDriversOpts = core.opts]
        apps == parseDriverOptsSlice(doc.appsOpts)
        c5 == IF doc.appsOpts.kind = Absent THEN c4
              ELSE [c4 EXCEPT !.AppsDriversOpts = apps.opts]
    IN  IF DriverOptsOutcome(doc.driverOpts) # "ok"
        THEN [outcome |-> DriverOptsOutcome(doc.driverOpts), cfg |-> c1]
        ELSE IF doc.coreOpts.kind # Absent /\ ~core.ok
        THEN [outcome |-> "error", cfg |-> c4]
        ELSE IF doc.appsOpts.kind # Absent /\ ~apps.ok
        THEN [outcome |-> "error", cfg |-> c5]
        ELSE [outcome |-> "ok", cfg |-> c5]

\* The fixed, ordered component catalog.
TsuruComponents == <<"A", "B", "C">>


\* ------------------------------------------------------------------- state
VARIABLES
    pc,             \* position of Install.Run
    config,         \* the plan parseConfigFile returned
    dockerMachine,  \* provisioner handle: "none", "open", "closed"
    live,           \* machines that exist at the provisioner
    created,        \* number of machines the provisioner ever created
    deleted,        \* machines the provisioner ever deleted
    calls,          \* the ProvisionMachine invocations, in order
    numMachines,    \* ProvisionMachines: its numMachines argument
    i,              \* ProvisionMachines: loop index
    machines,       \* ProvisionMachines: machines collected so far
    pmRet,          \* ProvisionMachines: what the last call returned
    coreMachines,   \* Install.Run: coreMachines
    cluster,        \* Install.Run: cluster (its manager and the state of its handle)
    installs,       \* component installs invoked, in order
    poolRet,        \* ProvisionPool: what it returned
    appsMachines,   \* Install.Run: appsMachines
    setups,         \* SetupTsuru calls, in order
    sshCmds,        \* fixup commands issued, in order
    warnings,       \* fixup failures reported on stderr
    uniqueMachines, \* Install.Run: uniqueMachines
    requests,       \* host registration requests submitted, in order
    err,            \* what Install.Run returned (NoErr: nil)
    ops,            \* stage of every operation Install.Run started, in order
    upc,            \* position of Uninstall.Run
    uerr,           \* what Uninstall.Run returned
    uops,           \* operations Uninstall.Run started, in order
    file,           \* c.config: the path given with --config ("": none)
    doc,            \* the document parseConfigFile read last (NoDoc: none)
    resolvedCoreOpts \* CoreDriversOpts as parseConfigFile returned them

vars == << pc, config, dockerMachine, live, created, deleted, calls, numMachines,
           i, machines, pmRet, coreMachines, cluster, installs, poolRet,
           appsMachines, setups, sshCmds, warnings, uniqueMachines, requests,
           err, ops, upc, uerr, uops, file, doc, resolvedCoreOpts >>

provVars == << live, created, calls, numMachines, i, machines, pmRet >>
lateVars == << setups, sshCmds, warnings, uniqueMachines, requests >>
unVars   == << upc, uerr, uops, deleted >>
inVars   == << file, doc, resolvedCoreOpts >>

NoMachine == [id |-> 0, name |-> "none"]
NoRet == [machines |-> <<>>, err |-> NoErr]
NoCluster == [manager |-> NoMachine, handle |-> "none"]

Init ==
    /\ pc = "parse"
    /\ config = defaultTsuruInstallConfig
    /\ dockerMachine = "none"
    /\ live = {}
    /\ created = 0
    /\ deleted = {}
    /\ calls = <<>>
    /\ numMachines = 0
    /\ i = 0
    /\ machines = <<>>
    /\ pmRet = NoRet
    /\ coreMachines = <<>>
    /\ cluster = NoCluster
    /\ installs = <<>>
    /\ poolRet = NoRet
    /\ appsMachines = <<>>
    /\ setups = <<>>
    /\ sshCmds = <<>>
    /\ warnings = 0
    /\ uniqueMachines = <<>>
    /\ requests = <<>>
    /\ err = NoErr
    /\ ops = <<>>
    /\ upc = "idle"
    /\ uerr = NoErr
    /\ uops = <<>>
    /\ file \in {"", "install.yml"}
    /\ doc = NoDoc
    /\ resolvedCoreOpts = EmptyMap

\* fmt.Errorf("<stage>: %s", cause): the stage name in front of the cause.
Wrap(stage, cause) == <<stage>> \o cause

\* Mutant of Return: the error is recorded but the run goes on.
ReturnAndGoOn(e) ==
    /\ pc' = pc
    /\ err' = e
    /\ UNCHANGED dockerMachine

\* Mutant of Return: no deferred Close.
ReturnWithoutClose(e) ==
    /\ pc' = "returned"
    /\ err' = e
    /\ UNCHANGED dockerMachine

\* Install.Run returns e: the deferred dockerMachine.Close() runs.  Nothing
\* is deferred for the cluster: its handle stays as it is.
Return(e) ==
    /\ pc' = "returned"
    /\ err' = e
    /\ dockerMachine' = IF dockerMachine = "open" THEN "closed" ELSE dockerMachine

\* Install.Run panics (a run-time error): deferred calls still run.
Panic ==
    /\ pc' = "panicked"
    /\ dockerMachine' = IF dockerMachine = "open" THEN "closed" ELSE dockerMachine
    /\ UNCHANGED err

\* ------------------------------------------------------------ Install.Run
\* parseConfigFile(c.config) reads document d.  config is the plan the global
\* default points to, which the call writes into and returns.
ParseDocument(d) ==
    /\ pc = "parse"
    /\ file # ""
    /\ ops' = Append(ops, "config")
    /\ LET r == parseConfigFile(d, config)
       IN  /\ config' = r.cfg
           /\ resolvedCoreOpts' = r.cfg.CoreDriversOpts
           /\ CASE r.outcome = "ok" ->
                     /\ pc' = "checks"
                     /\ UNCHANGED << err, dockerMachine >>
                [] r.outcome = "error" -> Return(<<"failed to parse opts">>)
                [] r.outcome = "panic" -> Panic
    /\ UNCHANGED << provVars, coreMachines, cluster, installs, poolRet,
                    appsMachines, lateVars, unVars, file >>

\* parseConfigFile(""): no file given, the plan the global default points to.
ParseNoFile ==
    /\ pc = "parse"
    /\ file = ""
    /\ ops' = Append(ops, "config")
    /\ pc' = "checks"
    /\ resolvedCoreOpts' = config.CoreDriversOpts
    /\ UNCHANGED << config, err, dockerMachine, provVars, coreMachines, cluster,
                    installs, poolRet, appsMachines, lateVars, unVars, file, doc >>

\* config.ReadConfigFile fails: the file cannot be read or is malformed.
ParseUnreadable ==
    /\ pc = "parse"
    /\ file # ""
    /\ ops' = Append(ops, "config")
    /\ Return(<<Cause>>)
    /\ UNCHANGED << config, provVars, coreMachines, cluster, installs, poolRet,
                    appsMachines, lateVars, unVars, inVars >>

\* config, err := parseConfigFile(c.config)
ParseConfigFile ==
    \/ ParseNoFile
    \/ ParseUnreadable
    \/ /\ pc = "parse"
       /\ \E d \in InstallDocs : ParseDocument(d) /\ UNCHANGED doc

\* parseConfigFile on any document, which is kept for reference.
ResolveDocument ==
    /\ pc = "parse"
    /\ \E d \in Docs : ParseDocument(d) /\ doc' = d

\* Mutant of PreInstallChecks: the check is made after the provisioner handle
\* was created, which the deferred Close then releases.
PreInstallChecksLate ==
    /\ pc = "checks"
    /\ ops' = Append(ops, "checks")
    /\ \/ /\ pc' = "newdm"
          /\ UNCHANGED << err, dockerMachine >>
       \/ \E cause \in {<<Cause>>, <<"tsuru target already exists">>} :
            /\ pc' = "returned"
            /\ err' = Wrap("pre-install checks failed", cause)
            /\ dockerMachine' = "closed"
    /\ UNCHANGED << config, provVars, coreMachines, cluster, installs, poolRet,
                    appsMachines, lateVars, unVars, inVars >>

\* err = c.PreInstallChecks(config)
PreInstallChecks ==
    /\ pc = "checks"
    /\ ops' = Append(ops, "checks")
    /\ \/ /\ pc' = "newdm"
          /\ UNCHANGED << err, dockerMachine >>
       \/ \E cause \in {<<Cause>>, <<"tsuru target already exists">>} :
            Return(Wrap("pre-install checks failed", cause))
    /\ UNCHANGED << config, provVars, coreMachines, cluster, installs, poolRet,
                    appsMachines, lateVars, unVars, inVars >>

\* ProvisionMachines is entered: var machines []*dm.Machine; i := 0
EnterProvisionMachines(n) ==
    /\ numMachines' = n
    /\ i' = 0
    /\ machines' = <<>>
    /\ pmRet' = NoRet

\* Mutant of InjectOpenPort: a value the user gave is kept.
InjectOpenPortIfAbsent(opts) ==
    opts @@ (OpenPortKey :> <<"defaultTsuruAPIPort">>)

\* config.CoreDriversOpts[config.DriverName+"-open-port"] =
\*     []interface{}{strconv.Itoa(defaultTsuruAPIPort)}
InjectOpenPort(opts) ==
    (OpenPortKey :> <<"defaultTsuruAPIPort">>) @@ opts

\* dockerMachine, err := dm.NewDockerMachine(...); defer dockerMachine.Close();
\* the open-port option is injected; ProvisionMachines is called for the core pool.
NewDockerMachine ==
    /\ pc = "newdm"
    /\ ops' = Append(ops, "docker-machine")
    /\ \/ /\ dockerMachine' = "open"
          /\ config' = [config EXCEPT !.CoreDriversOpts = InjectOpenPort(@)]
          /\ EnterProvisionMachines(config.CoreHosts)
          /\ pc' = "core"
          /\ UNCHANGED err
       \/ /\ Return(Wrap("failed to create docker machine", <<Cause>>))
          /\ UNCHANGED << config, numMachines, i, machines, pmRet >>
    /\ UNCHANGED << live, created, calls, coreMachines, cluster, installs,
                    poolRet, appsMachines, lateVars, unVars, inVars >>

\* ------------------------------------------------------ ProvisionMachines
PoolOf(p) == IF p \in {"core", "core_ret"} THEN "core" ELSE "apps"

\* The configs argument of the running ProvisionMachines call.
Configs == IF PoolOf(pc) = "core" THEN config.CoreDriversOpts ELSE config.AppsDriversOpts

\* Mutant of OptIndex: the index is clamped to the list instead of wrapped.
OptIndexClamped(idx, len) == IF idx < len THEN idx ELSE len - 1

\* idx := i % len(v)
OptIndex(idx, len) == idx % len

\* opts[k] = v[idx], for every k of configs (Go slices count from 0).
DriverOpts(configs, idx) ==
    [k \in DOMAIN configs |-> configs[k][OptIndex(idx, Len(configs[k])) + 1]]

\* Mutant of LiveAfterFailure: the machines made so far are rolled back.
LiveAfterRollback(l, made) == l \ {made[j].id : j \in DOMAIN made}

\* What a failed ProvisionMachine leaves at the provisioner: the loop
\* returns at once, the machines it made before are not touched.
LiveAfterFailure(l, made) == l

\* Mutant of FailedRet: the machines made so far are returned with the error.
FailedRetPartial(cause) ==
    [machines |-> machines, err |-> <<"failed to provision machines">> \o cause]

\* return nil, fmt.Errorf("failed to provision machines: %s", err)
FailedRet(cause) == [machines |-> <<>>, err |-> Wrap("failed to provision machines", cause)]

\* Mutant of Collect: the new machine is put in front.
CollectFront(ms, m) == <<m>> \o ms

\* machines = append(machines, m)
Collect(ms, m) == Append(ms, m)

\* One iteration of the loop: the option set of machine i is built (i % 0
\* panics on an empty value list), then p.ProvisionMachine(opts) is called.
ProvisionMachinesLoop ==
    /\ pc \in {"core", "apps"}
    /\ i < numMachines
    /\ IF \E k \in DOMAIN Configs : Len(Configs[k]) = 0
       THEN /\ Panic
            /\ UNCHANGED << provVars, ops >>
       ELSE LET opts == DriverOpts(Configs, i)
                call == [pool |-> PoolOf(pc), index |-> i, opts |-> opts]
            IN  /\ ops' = Append(ops, PoolOf(pc))
                /\ \/ \E name \in Names :
                        LET m == [id |-> created + 1, name |-> name]
                        IN  /\ calls' = Append(calls, [call |-> call, m |-> m])
                            /\ created' = created + 1
                            /\ live' = live \cup {m.id}
                            /\ machines' = Collect(machines, m)
                            /\ i' = i + 1
                            /\ UNCHANGED << pmRet, pc, err, dockerMachine, numMachines >>
                   \/ /\ calls' = Append(calls, [call |-> call, m |-> NoMachine])
                      /\ live' = LiveAfterFailure(live, machines)
                      /\ pmRet' = FailedRet(<<Cause>>)
                      /\ pc' = IF pc = "core" THEN "core_ret" ELSE "apps_ret"
                      /\ UNCHANGED << created, machines, i, err, dockerMachine, numMachines >>
    /\ UNCHANGED << config, coreMachines, cluster, installs, poolRet, appsMachines,
                    lateVars, unVars, inVars >>

\* The loop ends: return machines, nil
ProvisionMachinesReturn ==
    /\ pc \in {"core", "apps"}
    /\ i >= numMachines
    /\ pmRet' = [machines |-> machines, err |-> NoErr]
    /\ pc' = IF pc = "core" THEN "core_ret" ELSE "apps_ret"
    /\ UNCHANGED << config, dockerMachine, live, created, calls, numMachines, i,
                    machines, coreMachines, cluster, installs, poolRet,
                    appsMachines, lateVars, err, ops, unVars, inVars >>

\* coreMachines, err := ProvisionMachines(...) has returned to Install.Run.
CoreProvisioned ==
    /\ pc = "core_ret"
    /\ IF pmRet.err # NoErr
       THEN /\ Return(Wrap("failed to provision components machines", pmRet.err))
            /\ UNCHANGED coreMachines
       ELSE /\ coreMachines' = pmRet.machines
            /\ pc' = "cluster"
            /\ UNCHANGED << err, dockerMachine >>
    /\ UNCHANGED << config, provVars, cluster, installs, poolRet, appsMachines,
                    lateVars, ops, unVars, inVars >>

\* cluster, err := NewSwarmCluster(coreMachines, len(coreMachines)).  A
\* cluster that forms has exactly one manager, so it needs a machine; the
\* first core machine is taken as the manager.
NewSwarmCluster ==
    /\ pc = "cluster"
    /\ ops' = Append(ops, "cluster")
    /\ \/ /\ Len(coreMachines) > 0
          /\ cluster' = [manager |-> coreMachines[1], handle |-> "open"]
          /\ pc' = "components"
          /\ UNCHANGED << err, dockerMachine >>
       \/ /\ Return(Wrap("failed to setup swarm cluster", <<Cause>>))
          /\ UNCHANGED cluster
    /\ UNCHANGED << config, provVars, coreMachines, installs, poolRet,
                    appsMachines, lateVars, unVars, inVars >>

\* ----------------------------------------------------- component sequencer
\* The component the loop over TsuruComponents visits next.
NextComponent(done) == Len(done) + 1

\* Mutant of InstallError: the error names the first component of the catalog.
InstallErrorFirst(name, cause) == <<"error installing", TsuruComponents[1]>> \o cause

\* fmt.Errorf("error installing %s: %s", component.Name(), errInstall)
InstallError(name, cause) == <<"error installing", name>> \o cause

\* One iteration of the loop: component.Install(cluster, config.ComponentsConfig)
InstallComponent ==
    /\ pc = "components"
    /\ NextComponent(installs) <= Len(TsuruComponents)
    /\ LET k == NextComponent(installs)
           name == TsuruComponents[k]
       IN  /\ installs' = Append(installs, name)
           /\ ops' = Append(ops, "component")
           /\ \/ /\ pc' = IF k = Len(TsuruComponents) THEN "pool" ELSE "components"
                 /\ UNCHANGED << err, dockerMachine >>
              \/ Return(InstallError(name, <<Cause>>))
    /\ UNCHANGED << config, provVars, coreMachines, cluster, poolRet,
                    appsMachines, lateVars, unVars, inVars >>

\* ---------------------------------------------------------- ProvisionPool
\* Mutant of PoolBranch: the dedicated flag is not looked at.
PoolBranchIgnoresDedicated(cfg, hosts) ==
    IF cfg.AppsHosts > Len(hosts) THEN "deficit" ELSE "reuse"

\* Which branch ProvisionPool takes.
PoolBranch(cfg, hosts) ==
    IF cfg.DedicatedAppsHosts THEN "dedicated"
    ELSE IF cfg.AppsHosts > Len(hosts) THEN "deficit"
    ELSE "reuse"

\* Mutant of PoolDemand: the core hosts are not counted in.
PoolDemandFull(cfg, hosts) == cfg.AppsHosts

\* How many machines the branch asks ProvisionMachines for.
PoolDemand(cfg, hosts) ==
    IF PoolBranch(cfg, hosts) = "dedicated" THEN cfg.AppsHosts
    ELSE cfg.AppsHosts - Len(hosts)

\* Mutant of ReusedHosts: the last n hosts instead of the first n.
ReusedHostsLast(hosts, n) == SubSeq(hosts, Len(hosts) - n + 1, Len(hosts))

\* return hosts[:config.AppsHosts], nil
ReusedHosts(hosts, n) == SubSeq(hosts, 1, n)

\* Mutant of MixedPool: the core machines first.
MixedPoolCoreFirst(poolMachines, hosts) == hosts \o poolMachines

\* return append(poolMachines, hosts...), nil
MixedPool(poolMachines, hosts) == poolMachines \o hosts

\* appsMachines, err := ProvisionPool(dockerMachine, config, coreMachines)
ProvisionPool ==
    /\ pc = "pool"
    /\ ops' = Append(ops, "apps-pool")
    /\ IF PoolBranch(config, coreMachines) = "reuse"
       THEN /\ poolRet' = [machines |-> ReusedHosts(coreMachines, config.AppsHosts),
                           err |-> NoErr]
            /\ pc' = "pool_ret"
            /\ UNCHANGED << numMachines, i, machines, pmRet >>
       ELSE /\ EnterProvisionMachines(PoolDemand(config, coreMachines))
            /\ pc' = "apps"
            /\ UNCHANGED poolRet
    /\ UNCHANGED << config, dockerMachine, live, created, calls, coreMachines,
                    cluster, installs, appsMachines, lateVars, err, unVars, inVars >>

\* ProvisionMachines has returned to ProvisionPool, which returns.
ProvisionPoolReturn ==
    /\ pc = "apps_ret"
    /\ poolRet' =
         IF PoolBranch(config, coreMachines) = "dedicated" THEN pmRet
         ELSE IF pmRet.err # NoErr
              THEN [machines |-> <<>>,
                    err |-> Wrap("failed to provision pool hosts", pmRet.err)]
              ELSE [machines |-> MixedPool(pmRet.machines, coreMachines), err |-> NoErr]
    /\ pc' = "pool_ret"
    /\ UNCHANGED << config, dockerMachine, provVars, coreMachines, cluster,
                    installs, appsMachines, lateVars, err, ops, unVars, inVars >>

\* ProvisionPool has returned to Install.Run.
AppsSelected ==
    /\ pc = "pool_ret"
    /\ IF poolRet.err # NoErr
       THEN /\ Return(poolRet.err)
            /\ UNCHANGED appsMachines
       ELSE /\ appsMachines' = poolRet.machines
            /\ pc' = "bootstrap"
            /\ UNCHANGED << err, dockerMachine >>
    /\ UNCHANGED << config, provVars, coreMachines, cluster, installs, poolRet,
                    lateVars, ops, unVars, inVars >>

\* ---------------------------------------------------------- API bootstrap
GetPrivateAddress(m) == <<"private", m.id>>

\* Mutant of NodesAddr: the addresses are collected back to front.
NodesAddrReversed(ms) == [j \in DOMAIN ms |-> GetPrivateAddress(ms[Len(ms) + 1 - j])]

\* nodesAddr: the private address of every apps machine, in pool order.
NodesAddr(ms) == [j \in DOMAIN ms |-> GetPrivateAddress(ms[j])]

\* err = SetupTsuru(opts)
SetupTsuru ==
    /\ pc = "bootstrap"
    /\ ops' = Append(ops, "bootstrap")
    /\ setups' = Append(setups, [Target |-> <<cluster.manager.id, "defaultTsuruAPIPort">>,
                                 NodesAddr |-> NodesAddr(appsMachines)])
    /\ \/ /\ pc' = "fixups"
          /\ UNCHANGED << err, dockerMachine >>
       \/ Return(Wrap("Error bootstrapping tsuru", <<Cause>>))
    /\ UNCHANGED << config, provVars, coreMachines, cluster, installs, poolRet,
                    appsMachines, sshCmds, warnings, uniqueMachines, requests,
                    unVars, inVars >>

\* ------------------------------------------------------------------ fixups
\* The two iptables commands run on every core machine.
FixupRules == <<"gwbridge-to-docker0", "docker0-to-gwbridge">>

\* Mutant of FixupDone: a failed command ends the run with an error.
FixupDoneOrAbort(failed, n) ==
    IF failed
    THEN Return(Wrap("failed to apply iptables rule", <<Cause>>))
    ELSE /\ pc' = IF n = Len(FixupRules) * Len(coreMachines)
                  THEN "summary" ELSE "fixups"
         /\ UNCHANGED << err, dockerMachine >>

\* After the n-th command: if err != nil { fmt.Fprintf(context.Stderr, ...) },
\* then the next command, or the overview after the last one.
FixupDone(failed, n) ==
    /\ pc' = IF n = Len(FixupRules) * Len(coreMachines)
             THEN "summary" ELSE "fixups"
    /\ UNCHANGED << err, dockerMachine >>

\* One m.RunSSHCommand(...) of the loop over coreMachines: a failure is
\* written to stderr and the loop goes on.
RunSSHCommand ==
    /\ pc = "fixups"
    /\ Len(sshCmds) < Len(FixupRules) * Len(coreMachines)
    /\ LET n == Len(sshCmds)
           m == coreMachines[(n \div Len(FixupRules)) + 1]
           rule == FixupRules[(n % Len(FixupRules)) + 1]
       IN  /\ sshCmds' = Append(sshCmds, [machine |-> m.id, rule |-> rule])
           /\ ops' = Append(ops, "fixup")
           /\ \E failed \in BOOLEAN :
                /\ warnings' = IF failed THEN warnings + 1 ELSE warnings
                /\ FixupDone(failed, n + 1)
    /\ UNCHANGED << config, provVars, coreMachines, cluster,
                    installs, poolRet, appsMachines, setups, uniqueMachines,
                    requests, unVars, inVars >>

\* ------------------------------------------------- summary, de-duplication
\* Mutant of AllMachines: the apps machines are left out.
AllMachinesCoreOnly(core, apps) == core

\* allMachines := append(coreMachines, appsMachines...)
AllMachines(core, apps) == core \o apps

\* Mutant of MachineIndex: the machines are indexed by identity, not by name.
MachineIndexByMachine(all) ==
    [n \in {all[j].id : j \in DOMAIN all} |->
        all[CHOOSE j \in DOMAIN all : all[j].id = n]]

\* Mutant of MachineIndex: a name keeps the machine indexed first.
MachineIndexFirstWins(all) ==
    [n \in {all[j].name : j \in DOMAIN all} |->
        all[CHOOSE j \in DOMAIN all :
              /\ all[j].name = n
              /\ \A k \in DOMAIN all : all[k].name = n => j <= k]]

\* machineIndex[m.Name] = m, for every m of allMachines in order.
MachineIndex(all) ==
    [n \in {all[j].name : j \in DOMAIN all} |->
        all[CHOOSE j \in DOMAIN all :
              /\ all[j].name = n
              /\ \A k \in DOMAIN all : all[k].name = n => k <= j]]

\* The orders in which ranging over the map may append to uniqueMachines.
MapOrders(index) ==
    LET vals == {index[n] : n \in DOMAIN index}
    IN  {s \in [1..Cardinality(vals) -> vals] :
            \A a, b \in DOMAIN s : a # b => s[a] # s[b]}

\* The overview is printed (nodeList.Run and appList.Run: results ignored),
\* then the machines are indexed by name and collected from the map.
Summary ==
    /\ pc = "summary"
    /\ ops' = Append(ops, "summary")
    /\ \E order \in MapOrders(MachineIndex(AllMachines(coreMachines, appsMachines))) :
         uniqueMachines' = order
    /\ pc' = "hosts"
    /\ UNCHANGED << config, dockerMachine, provVars, coreMachines, cluster,
                    installs, poolRet, appsMachines, setups, sshCmds, warnings,
                    requests, err, unVars, inVars >>

\* -------------------------------------------------------- addInstallHosts
\* return fmt.Errorf("failed to register hosts: %s", err)
RegisterError(cause) == Wrap("failed to register hosts", cause)

\* Mutant of PostFailed: a failed post is skipped and the loop goes on.
PostFailedGoesOn ==
    /\ pc' = "hosts"
    /\ UNCHANGED << err, dockerMachine >>

\* _, err = client.Do(request) failed: return err
PostFailed == Return(RegisterError(<<Cause>>))

\* The files read for every machine: the SSH private key, ca.pem, ca-key.pem.
ReadFiles == {"sshPrivateKey", "caCert", "caPrivateKey"}

\* What the three ioutil.ReadFile calls of one iteration may do (TRUE: read).
ReadOutcomes == [ReadFiles -> BOOLEAN]

\* The outcome the whole runs are checked with: every file is read.
InstallReads == { [f \in ReadFiles |-> TRUE] }

\* string(data) of what ioutil.ReadFile returned: empty after a failed read.
FileValue(read) == IF read THEN "contents" ELSE ""

\* Mutant of ReadErrorFatal: a failed read ends the registration.
ReadErrorFatalOnFailure(outcome) == \E f \in ReadFiles : ~outcome[f]

\* if err != nil { fmt.Printf("failed to read ...: %s", err) }: no read
\* failure makes addInstallHosts return.
ReadErrorFatal(outcome) == FALSE

\* One iteration of the loop over machines: the files are read, the form is
\* built and posted.  Before the first iteration cmd.GetURLVersion may fail;
\* in an iteration json.Marshal or http.NewRequest may fail (nothing is
\* sent), or client.Do may fail.
RegisterHost(outcomes) ==
    /\ pc = "hosts"
    /\ ops' = Append(ops, "register")
    /\ IF Len(requests) < Len(uniqueMachines)
       THEN LET m == uniqueMachines[Len(requests) + 1]
                last == Len(requests) + 1 = Len(uniqueMachines)
                request(ok, outcome) ==
                    [name |-> m.name, machine |-> m.id, ok |-> ok,
                     sshPrivateKey |-> FileValue(outcome["sshPrivateKey"]),
                     caCert |-> FileValue(outcome["caCert"]),
                     caPrivateKey |-> FileValue(outcome["caPrivateKey"])]
            IN  \/ /\ Return(RegisterError(<<Cause>>))
                   /\ UNCHANGED requests
                \/ \E outcome \in outcomes :
                     IF ReadErrorFatal(outcome)
                     THEN /\ Return(RegisterError(<<"failed to read file">>))
                          /\ UNCHANGED requests
                     ELSE \/ /\ requests' = Append(requests, request(TRUE, outcome))
                             /\ IF last THEN Return(NoErr)
                                ELSE /\ pc' = "hosts"
                                     /\ UNCHANGED << err, dockerMachine >>
                          \/ /\ requests' = Append(requests, request(FALSE, outcome))
                             /\ PostFailed
       ELSE /\ Return(NoErr)
            /\ UNCHANGED requests
    /\ UNCHANGED << config, provVars, coreMachines, cluster, installs, poolRet,
                    appsMachines, setups, sshCmds, warnings, uniqueMachines, unVars, inVars >>

\* err = addInstallHosts(uniqueMachines, cli)
AddInstallHosts == RegisterHost(InstallReads)

\* addInstallHosts with every outcome of the reads.
AddInstallHostsAnyRead == RegisterHost(ReadOutcomes)

\* ----------------------------------------------------------- Uninstall.Run
installVars == << pc, config, dockerMachine, created, calls, numMachines, i,
                  machines, pmRet, coreMachines, cluster, installs, poolRet,
                  appsMachines, lateVars, err, ops, inVars >>

\* Mutant of UReturn: the error is written out but the run goes on.
UReturnLogged(e) == upc' = upc /\ uerr' = e

UReturn(e) == upc' = "returned" /\ uerr' = e

\* Uninstall runs in a later invocation of the tool: the process of the
\* Install run has ended and its memory is gone; what the provisioner holds
\* stays.  config, err := parseConfigFile(c.config)
UninstallParseConfigFile ==
    /\ pc \in {"returned", "panicked"}
    /\ upc = "idle"
    /\ pc' = "exited"
    /\ config' = defaultTsuruInstallConfig
    /\ dockerMachine' = "none"
    /\ calls' = <<>>
    /\ numMachines' = 0 /\ i' = 0 /\ machines' = <<>> /\ pmRet' = NoRet
    /\ coreMachines' = <<>> /\ cluster' = NoCluster /\ installs' = <<>>
    /\ poolRet' = NoRet /\ appsMachines' = <<>>
    /\ setups' = <<>> /\ sshCmds' = <<>> /\ warnings' = 0
    /\ uniqueMachines' = <<>> /\ requests' = <<>>
    /\ err' = NoErr /\ ops' = <<>>
    /\ file' = "" /\ doc' = NoDoc /\ resolvedCoreOpts' = EmptyMap
    /\ uops' = Append(uops, "config")
    /\ \/ upc' = "newdm" /\ UNCHANGED uerr
       \/ UReturn(<<Cause>>)
    /\ UNCHANGED << created, live, deleted >>

\* d, err := dm.NewDockerMachine(config.DockerMachineConfig)
UninstallNewDockerMachine ==
    /\ upc = "newdm"
    /\ uops' = Append(uops, "docker-machine")
    /\ \/ upc' = "delete" /\ UNCHANGED uerr
       \/ UReturn(<<Cause>>)
    /\ UNCHANGED << installVars, live, deleted >>

\* err = d.DeleteAll()
DeleteAll ==
    /\ upc = "delete"
    /\ uops' = Append(uops, "delete-all")
    /\ \/ /\ deleted' = deleted \cup live
          /\ live' = {}
          /\ upc' = "api"
          /\ UNCHANGED uerr
       \/ /\ UReturn(<<Cause>>)
          /\ UNCHANGED << live, deleted >>
    /\ UNCHANGED installVars

\* err = api.Uninstall(config.Name)
APIUninstall ==
    /\ upc = "api"
    /\ uops' = Append(uops, "remove-target")
    /\ \/ UReturn(NoErr)
       \/ UReturn(<<Cause>>)
    /\ UNCHANGED << installVars, live, deleted >>

Next ==
    \/ ParseConfigFile \/ PreInstallChecks \/ NewDockerMachine
    \/ ProvisionMachinesLoop \/ ProvisionMachinesReturn \/ CoreProvisioned
    \/ NewSwarmCluster \/ InstallComponent
    \/ ProvisionPool \/ ProvisionPoolReturn \/ AppsSelected
    \/ SetupTsuru \/ RunSSHCommand \/ Summary \/ AddInstallHosts
    \/ UninstallParseConfigFile \/ UninstallNewDockerMachine
    \/ DeleteAll \/ APIUninstall

Spec == Init /\ [][Next]_vars

\* The resolver alone, on every document.
ResolverNext == ParseNoFile \/ ParseUnreadable \/ ResolveDocument

ResolverSpec == Init /\ [][ResolverNext]_vars

\* The documents the registration is checked with: some core hosts, or a
\* dedicated apps host.
RegisterDocs ==
    { [NoDoc EXCEPT !.coreSize = v] : v \in Set(1..MaxCoreHosts) }
    \cup { [NoDoc EXCEPT !.dedicated = v] : v \in Set({TRUE}) }

\* parseConfigFile on one of these documents.
ResolveForRegister ==
    /\ pc = "parse"
    /\ \E d \in RegisterDocs : ParseDocument(d) /\ UNCHANGED doc

\* The Install run with every outcome of the file reads of addInstallHosts.
RegisterNext ==
    \/ ParseNoFile \/ ParseUnreadable \/ ResolveForRegister
    \/ PreInstallChecks \/ NewDockerMachine
    \/ ProvisionMachinesLoop \/ ProvisionMachinesReturn \/ CoreProvisioned
    \/ NewSwarmCluster \/ InstallComponent
    \/ ProvisionPool \/ ProvisionPoolReturn \/ AppsSelected
    \/ SetupTsuru \/ RunSSHCommand \/ Summary \/ AddInstallHostsAnyRead

RegisterSpec == Init /\ [][RegisterNext]_vars

\* parseConfigFile is called once more in the same process, with a path or
\* without one: installConfig := defaultTsuruInstallConfig is again the
\* object the earlier calls wrote into (config).
ResolveAgain ==
    /\ pc \in {"checks", "returned"}
    /\ ops = <<"config">>
    /\ pc' = "parse"
    /\ file' \in {"", "install.yml"}
    /\ ops' = <<>>
    /\ err' = NoErr
    /\ resolvedCoreOpts' = EmptyMap
    /\ UNCHANGED << config, dockerMachine, provVars, coreMachines, cluster,
                    installs, poolRet, appsMachines, lateVars, unVars, doc >>

\* The documents the sequences of calls are checked with: at most one
\* recognized key each.
RepeatDocs ==
    { [NoDoc EXCEPT !.coreSize = v] : v \in Set(0..MaxCoreHosts) }
    \cup { [NoDoc EXCEPT !.appsSize = v] : v \in Set(0..MaxAppsHosts) }
    \cup { [NoDoc EXCEPT !.dedicated = v] : v \in Set(BOOLEAN) }
    \cup { [NoDoc EXCEPT !.coreOpts = b] : b \in CoreOptsBlocks }
    \cup { [NoDoc EXCEPT !.appsOpts = b] : b \in OptsBlocks }

\* parseConfigFile on one of these documents.
ResolveOneKey ==
    /\ pc = "parse"
    /\ \E d \in RepeatDocs : ParseDocument(d) /\ UNCHANGED doc

\* Sequences of resolver calls in one process.
RepeatNext == ParseNoFile \/ ParseUnreadable \/ ResolveOneKey \/ ResolveAgain

RepeatSpec == Init /\ [][RepeatNext]_vars


\* ------------------------------------------------------------- properties
Range(s) == {s[j] : j \in DOMAIN s}

\* The ProvisionMachine invocations made for one pool, in order.
PoolCalls(pool) ==
    LET OfPool(c) == c.call.pool = pool
    IN  SelectSeq(calls, OfPool)

\* The options map ProvisionMachines was given for a pool.
PoolConfigs(pool) ==
    IF pool = "core" THEN config.CoreDriversOpts ELSE config.AppsDriversOpts

StageRank(stage) ==
    CASE stage = "config"         -> 1
      [] stage = "checks"         -> 2
      [] stage = "docker-machine" -> 3
      [] stage = "core"           -> 4
      [] stage = "cluster"        -> 5
      [] stage = "component"      -> 6
      [] stage = "apps-pool"      -> 7
      [] stage = "apps"           -> 7
      [] stage = "bootstrap"      -> 8
      [] stage = "fixup"          -> 9
      [] stage = "summary"        -> 10
      [] stage = "register"       -> 11

\* The stages the control flow names, in its order.
Stages == <<"config", "core", "cluster", "component", "apps-pool", "bootstrap",
            "fixup", "summary", "register">>

\* An operation is started: it is recorded after those started before, and
\* its stage is not an earlier one than theirs.
StartsInOrder ==
    (ops' # ops /\ pc' # "exited") =>
        /\ Len(ops') = Len(ops) + 1
        /\ SubSeq(ops', 1, Len(ops)) = ops
        /\ ops # <<>> => StageRank(ops[Len(ops)]) <= StageRank(ops'[Len(ops')])

\* C1: the operations of an Install run start in the fixed stage order
\* config, core provisioning, cluster formation, component installation,
\* apps-pool selection, bootstrap, fixups, summary, registration (a successful
\* run has gone through every stage), and once the run has returned an error
\* no further operation of the run is started.
C1_StageOrderAndAbort ==
    [][ /\ StartsInOrder
        /\ (pc' = "returned" /\ err' = NoErr) =>
              \A j \in DOMAIN Stages : Stages[j] \in Range(ops')
        /\ (err # NoErr /\ pc' # "exited") => (ops' = ops /\ err' = err /\ pc' = pc) ]_vars

C1_Witness ==
    /\ pc = "returned" /\ err = NoErr
    /\ "apps" \in Range(ops)

\* The machines the provisioner has returned so far.
Provisioned == {c.m : c \in {d \in Range(calls) : d.m # NoMachine}}

\* C2: until Uninstall calls DeleteAll no machine is deprovisioned: every
\* machine the provisioner created is still live, whatever stage failed, and
\* nothing was ever deleted.
C2_NoDeprovision ==
    "delete-all" \notin Range(uops) =>
        /\ deleted = {}
        /\ live = 1..created
        /\ pc # "exited" => live = {m.id : m \in Provisioned}

C2_Witness ==
    /\ pc = "returned" /\ err # NoErr
    /\ Cardinality(live) >= 2

\* C3: the option set passed for machine index idx has exactly the keys of
\* the per-index options map, and for every key the value at position
\* idx mod L of its list of length L (idx = q * L + r with 0 <= r < L).
C3_RoundRobinOptions ==
    \A j \in DOMAIN calls :
        LET c == calls[j].call
            cfg == PoolConfigs(c.pool)
        IN  /\ DOMAIN c.opts = DOMAIN cfg
            /\ \A k \in DOMAIN cfg :
                 /\ Len(cfg[k]) >= 1
                 /\ \E q \in 0..c.index, r \in 0..(Len(cfg[k]) - 1) :
                      /\ c.index = q * Len(cfg[k]) + r
                      /\ c.opts[k] = cfg[k][r + 1]

C3_Witness ==
    \E j \in DOMAIN calls :
        /\ calls[j].call.index = 2
        /\ ZoneKey \in DOMAIN calls[j].call.opts
        /\ PoolConfigs(calls[j].call.pool)[ZoneKey] = <<"a", "b">>
        /\ calls[j].call.opts[ZoneKey] = "a"
        /\ \E h \in DOMAIN calls :
             /\ calls[h].call.pool = calls[j].call.pool
             /\ calls[h].call.index = 1
             /\ calls[h].call.opts[ZoneKey] = "b"

AtProvisionMachinesReturn == pc \in {"core_ret", "apps_ret"}

\* C4: when the provisioner fails for machine index k, ProvisionMachines has
\* invoked it exactly for the indices 0..k in this order and never again,
\* returns no machine list and an error wrapping the cause, and the k machines
\* made before are still live.
C4_AbortOnFirstFailure ==
    /\ \A pool \in {"core", "apps"} :
         LET cs == PoolCalls(pool)
         IN  \A j \in DOMAIN cs :
               /\ cs[j].call.index = j - 1
               /\ cs[j].m = NoMachine => j = Len(cs)
    /\ (AtProvisionMachinesReturn /\ pmRet.err # NoErr) =>
         LET cs == PoolCalls(PoolOf(pc))
         IN  /\ Len(cs) >= 1
             /\ Len(cs) <= numMachines
             /\ cs[Len(cs)].m = NoMachine
             /\ \A j \in 1..(Len(cs) - 1) : cs[j].m # NoMachine /\ cs[j].m.id \in live
             /\ pmRet.machines = <<>>
             /\ pmRet.err = <<"failed to provision machines", Cause>>

C4_Witness ==
    /\ AtProvisionMachinesReturn
    /\ pmRet.err # NoErr
    /\ Len(PoolCalls(PoolOf(pc))) = 3

\* C5: when ProvisionMachines(count) returns without an error it has invoked
\* the provisioner exactly count times, for the indices 0..count-1 in order,
\* and element i of the returned list is the machine invocation i returned.
C5_SuccessInRequestOrder ==
    (AtProvisionMachinesReturn /\ pmRet.err = NoErr) =>
        LET cs == PoolCalls(PoolOf(pc))
        IN  /\ Len(cs) = numMachines
            /\ Len(pmRet.machines) = numMachines
            /\ \A j \in DOMAIN cs :
                 /\ cs[j].call.index = j - 1
                 /\ cs[j].m # NoMachine
                 /\ pmRet.machines[j] = cs[j].m

C5_Witness ==
    /\ AtProvisionMachinesReturn
    /\ pmRet.err = NoErr
    /\ Len(pmRet.machines) = 3
    /\ pmRet.machines[1].name # pmRet.machines[2].name

AtProvisionPoolReturn == pc = "pool_ret"

\* C6: non-dedicated with appsHosts > len(coreMachines): ProvisionPool
\* provisions exactly the deficit, with the apps driver options, and returns
\* appsHosts machines: the fresh ones in provisioning order, then all core
\* machines in their order.
C6_DeficitPool ==
    ( /\ AtProvisionPoolReturn
      /\ poolRet.err = NoErr
      /\ ~config.DedicatedAppsHosts
      /\ config.AppsHosts > Len(coreMachines) ) =>
        LET cs == PoolCalls("apps")
            d == config.AppsHosts - Len(coreMachines)
        IN  /\ Len(cs) = d
            /\ Len(poolRet.machines) = config.AppsHosts
            /\ \A j \in 1..d :
                 /\ poolRet.machines[j] = cs[j].m
                 /\ cs[j].m.id \notin {coreMachines[k].id : k \in DOMAIN coreMachines}
                 /\ DOMAIN cs[j].call.opts = DOMAIN config.AppsDriversOpts
            /\ \A j \in DOMAIN coreMachines : poolRet.machines[d + j] = coreMachines[j]

C6_Witness ==
    /\ AtProvisionPoolReturn
    /\ poolRet.err = NoErr
    /\ ~config.DedicatedAppsHosts
    /\ config.AppsHosts = 3
    /\ Len(coreMachines) = 1
    /\ Len(poolRet.machines) = 3

\* C7: non-dedicated with appsHosts <= len(coreMachines) (a host count is a
\* natural number): ProvisionPool returns the first appsHosts core machines
\* in their order, without an error and without any provisioner call.
C7_ReusePool ==
    ( /\ AtProvisionPoolReturn
      /\ ~config.DedicatedAppsHosts
      /\ config.AppsHosts <= Len(coreMachines) ) =>
        /\ poolRet.err = NoErr
        /\ Len(poolRet.machines) = config.AppsHosts
        /\ \A j \in 1..config.AppsHosts : poolRet.machines[j] = coreMachines[j]
        /\ PoolCalls("apps") = <<>>
        /\ created = Len(coreMachines)

C7_Witness ==
    /\ AtProvisionPoolReturn
    /\ ~config.DedicatedAppsHosts
    /\ config.AppsHosts = 1
    /\ Len(coreMachines) = 2
    /\ poolRet.machines = <<coreMachines[1]>>

\* C8: dedicated: a ProvisionPool that returns without an error has
\* provisioned exactly appsHosts fresh machines, whatever the number of core
\* machines, and returns them: none of them is a core machine.
C8_DedicatedPool ==
    ( /\ AtProvisionPoolReturn
      /\ poolRet.err = NoErr
      /\ config.DedicatedAppsHosts ) =>
        LET cs == PoolCalls("apps")
        IN  /\ Len(cs) = config.AppsHosts
            /\ Len(poolRet.machines) = config.AppsHosts
            /\ \A j \in DOMAIN cs : poolRet.machines[j] = cs[j].m
            /\ \A j \in DOMAIN poolRet.machines :
                 poolRet.machines[j] \notin Range(coreMachines)

C8_Witness ==
    /\ AtProvisionPoolReturn
    /\ poolRet.err = NoErr
    /\ config.DedicatedAppsHosts
    /\ config.AppsHosts = 1
    /\ Len(coreMachines) = 2
    /\ poolRet.machines[1].name = coreMachines[1].name

IsPrefix(s, t) == Len(s) <= Len(t) /\ \A j \in DOMAIN s : s[j] = t[j]

\* C9: the components are installed in catalog order, once each; after a
\* failure of component k nothing more is installed and the error names
\* component k; the apps pool is reached only with the whole catalog installed.
C9_StopAtFirstFailure ==
    /\ IsPrefix(installs, TsuruComponents)
    /\ (err # NoErr /\ err[1] = "error installing") =>
         /\ installs # <<>>
         /\ err = <<"error installing", installs[Len(installs)], Cause>>
    /\ (err = NoErr /\ ~(pc \in {"parse", "checks", "newdm", "core", "core_ret",
                                 "cluster", "components", "panicked", "exited"})) =>
         installs = TsuruComponents
    /\ (pc = "components" /\ installs # <<>>) => Len(installs) < Len(TsuruComponents)

C9_Witness ==
    /\ pc = "returned"
    /\ err = <<"error installing", "B", Cause>>
    /\ installs = <<"A", "B">>

\* C10: on a successful Install run, for every machine provisioned during
\* the run a registration request carrying its name was submitted.
C10_EveryHostRegistered ==
    (pc = "returned" /\ err = NoErr) =>
        \A m \in Provisioned : \E j \in DOMAIN requests : requests[j].name = m.name

C10_Witness ==
    /\ pc = "returned" /\ err = NoErr
    /\ config.DedicatedAppsHosts
    /\ Len(requests) = 2
    /\ \A j \in DOMAIN coreMachines : coreMachines[j].name = "m1"
    /\ \A j \in DOMAIN appsMachines : appsMachines[j].name = "m2"
    /\ appsMachines # <<>>


\* The names of the machines of both pools.
PoolNames == {m.name : m \in Range(coreMachines) \cup Range(appsMachines)}

\* C11: no two registration requests carry the same name, and a successful
\* run has sent exactly one request per distinct machine name of the core
\* and apps pools.
C11_OneRequestPerName ==
    /\ \A a, b \in DOMAIN requests : a # b => requests[a].name # requests[b].name
    /\ (pc = "returned" /\ err = NoErr) =>
         /\ Len(requests) = Cardinality(PoolNames)
         /\ {requests[j].name : j \in DOMAIN requests} = PoolNames

C11_Witness ==
    /\ pc = "returned" /\ err = NoErr
    /\ Len(requests) = 1
    /\ \E a, b \in Range(coreMachines) \cup Range(appsMachines) :
         a.name = b.name /\ a.id # b.id

\* C12: a registration request that failed is the last one sent: the run
\* has returned the registration error, the machines after it in
\* uniqueMachines got no request, and the requests before it were accepted.
C12_AbortOnFailedRegistration ==
    /\ Len(requests) <= Len(uniqueMachines)
    /\ \A j \in DOMAIN requests :
         /\ requests[j].machine = uniqueMachines[j].id
         /\ ~requests[j].ok =>
              /\ j = Len(requests)
              /\ pc = "returned"
              /\ err = <<"failed to register hosts", Cause>>
              /\ \A h \in 1..(j - 1) : requests[h].ok

C12_Witness ==
    /\ pc = "returned"
    /\ Len(uniqueMachines) = 2
    /\ Len(requests) = 1
    /\ ~requests[1].ok


\* The run got its provisioner handle: dm.NewDockerMachine succeeded.
HandleAcquired ==
    /\ Len(ops) >= 3
    /\ ~(err # NoErr /\ err[1] = "failed to create docker machine")

\* C13 as stated: when an Install run has returned, neither the provisioner
\* handle nor the cluster handle is still open.
C13_BothHandlesReleased ==
    pc = "returned" => (dockerMachine # "open" /\ cluster.handle # "open")

\* C13, amended: when an Install run has ended (returned or panicked) the
\* provisioner handle it acquired is closed; the cluster handle is never
\* closed by the run.
C13_ProvisionerHandleReleased ==
    /\ pc \in {"returned", "panicked"} =>
         /\ dockerMachine # "open"
         /\ HandleAcquired => dockerMachine = "closed"
    /\ cluster.handle # "closed"
    /\ (pc \in {"returned", "panicked"} /\ "component" \in Range(ops)) =>
         cluster.handle = "open"

C13_Witness ==
    /\ pc = "returned" /\ err # NoErr
    /\ dockerMachine = "closed"
    /\ cluster.handle = "open"

\* C14: resolving the configuration with no path given returns the documented
\* default plan exactly: 1 core host, 1 apps host, apps hosts not dedicated,
\* the default driver name, and no driver options of any kind.
C14_NoFileGivesDefaultPlan ==
    (file = "" /\ pc = "checks") =>
        /\ config.CoreHosts = 1
        /\ config.AppsHosts = 1
        /\ config.DedicatedAppsHosts = FALSE
        /\ config.DriverName = "virtualbox"
        /\ config.Name = "tsuru"
        /\ config.DriverOpts = EmptyMap
        /\ config.CoreDriversOpts = EmptyMap
        /\ config.AppsDriversOpts = EmptyMap

C14_Witness ==
    file = "" /\ pc = "checks" /\ ops = <<"config">> /\ config.CoreHosts = 1

\* The document that holds nothing but hosts:core:size: n.
OnlyCoreSize(n) == [NoDoc EXCEPT !.coreSize = [set |-> TRUE, val |-> n]]

\* C15: a resolved plan holds, field by field, the document's value where the
\* document has the key and the default's value where it has not; so the plan
\* resolved from a document holding only hosts:core:size differs from the
\* default plan in the core host count alone.
C15_FieldwiseOverlay ==
    (file # "" /\ pc = "checks") =>
        LET def == defaultTsuruInstallConfig
            field(key, old) == IF key.set THEN key.val ELSE old
        IN  /\ config.DriverName = field(doc.driverName, def.DriverName)
            /\ config.Name = field(doc.name, def.Name)
            /\ config.DockerHubMirror = field(doc.hub, def.DockerHubMirror)
            /\ config.CAPath = field(doc.caPath, def.CAPath)
            /\ config.CoreHosts = field(doc.coreSize, def.CoreHosts)
            /\ config.AppsHosts = field(doc.appsSize, def.AppsHosts)
            /\ config.DedicatedAppsHosts = field(doc.dedicated, def.DedicatedAppsHosts)
            /\ doc.driverOpts.kind = Absent => config.DriverOpts = def.DriverOpts
            /\ doc.coreOpts.kind = Absent => config.CoreDriversOpts = def.CoreDriversOpts
            /\ doc.appsOpts.kind = Absent => config.AppsDriversOpts = def.AppsDriversOpts
            /\ \A n \in 0..MaxCoreHosts :
                 doc = OnlyCoreSize(n) => config = [def EXCEPT !.CoreHosts = n]

C15_Witness ==
    /\ pc = "checks"
    /\ doc = OnlyCoreSize(MaxCoreHosts)
    /\ config.CoreHosts = MaxCoreHosts
    /\ config.AppsHosts = 1

\* parseConfigFile returned an error to Install.Run.
ConfigFailed == err \in {<<Cause>>, <<"failed to parse opts">>}

\* C16: when config resolution returns an error the run has ended with that
\* error and has made no provisioner call, no cluster call, no component
\* install, no bootstrap call and no registration request.
C16_ConfigErrorBeforeSideEffects ==
    ConfigFailed =>
        /\ pc = "returned"
        /\ ops = <<"config">>
        /\ dockerMachine = "none"
        /\ calls = <<>> /\ created = 0 /\ live = {}
        /\ cluster = NoCluster
        /\ installs = <<>>
        /\ setups = <<>> /\ sshCmds = <<>>
        /\ requests = <<>>

C16_Witness ==
    pc = "returned" /\ err = <<"failed to parse opts">> /\ calls = <<>>

\* An options block of d is present but is no mapping.
HasBadBlock(d) ==
    NotAMapping \in {d.driverOpts.kind, d.coreOpts.kind, d.appsOpts.kind}

\* C17: whenever an options block of the document (driver:options, core
\* driver options, apps driver options) is present but is no mapping, config
\* resolution ends by returning an error to its caller.
C17_BadBlockIsConfigError ==
    (file # "" /\ pc # "parse" /\ HasBadBlock(doc)) =>
        (pc = "returned" /\ err = <<"failed to parse opts">>)

C17_Witness ==
    /\ pc = "panicked"
    /\ err = NoErr
    /\ doc.driverOpts.kind = NotAMapping
    /\ doc.coreOpts.kind = Absent /\ doc.appsOpts.kind = Absent

\* C18: in every plan config resolution returns, every option list of the
\* core and of the apps driver options holds at least one value.
C18_OptionListsNonEmpty ==
    pc = "checks" =>
        /\ \A k \in DOMAIN config.CoreDriversOpts : Len(config.CoreDriversOpts[k]) >= 1
        /\ \A k \in DOMAIN config.AppsDriversOpts : Len(config.AppsDriversOpts[k]) >= 1

C18_Witness ==
    /\ pc = "checks"
    /\ doc.coreOpts.kind = "map"
    /\ ZoneKey \in DOMAIN config.CoreDriversOpts
    /\ config.CoreDriversOpts[ZoneKey] = <<>>

\* C19: every core machine is asked for with the open-port option set to the
\* API port, whatever the resolved core driver options held for that option,
\* and also when they held nothing at all.
C19_CoreOpenPortPinned ==
    /\ \A j \in DOMAIN calls :
         calls[j].call.pool = "core" =>
            /\ OpenPortKey \in DOMAIN calls[j].call.opts
            /\ calls[j].call.opts[OpenPortKey] = "defaultTsuruAPIPort"
            /\ DOMAIN calls[j].call.opts = DOMAIN resolvedCoreOpts \cup {OpenPortKey}
    /\ pc \in {"core", "core_ret"} =>
         config.CoreDriversOpts[OpenPortKey] = <<"defaultTsuruAPIPort">>

C19_Witness ==
    /\ OpenPortKey \in DOMAIN resolvedCoreOpts
    /\ resolvedCoreOpts[OpenPortKey] = <<"9999">>
    /\ \E j \in DOMAIN calls :
         /\ calls[j].call.pool = "core"
         /\ calls[j].call.index = 1
         /\ calls[j].call.opts[OpenPortKey] = "defaultTsuruAPIPort"

\* SetupTsuru returned an error to Install.Run.
BootstrapFailed == err # NoErr /\ err[1] = "Error bootstrapping tsuru"

\* C20: the bootstrap call is made at most once per run, after every catalog
\* component was installed and the apps pool was selected; it targets the
\* cluster manager on the API port and carries the private address of every
\* apps machine in pool order; when it fails the run has ended without a
\* second call, without a fixup and without a registration request.
C20_BootstrapOnce ==
    /\ Len(setups) <= 1
    /\ setups # <<>> =>
         /\ installs = TsuruComponents
         /\ "apps-pool" \in Range(ops)
         /\ poolRet.err = NoErr /\ appsMachines = poolRet.machines
         /\ setups[1].Target = <<coreMachines[1].id, "defaultTsuruAPIPort">>
         /\ Len(setups[1].NodesAddr) = Len(appsMachines)
         /\ \A j \in DOMAIN appsMachines :
              setups[1].NodesAddr[j] = <<"private", appsMachines[j].id>>
    /\ BootstrapFailed =>
         /\ pc = "returned"
         /\ Len(setups) = 1
         /\ ops[Len(ops)] = "bootstrap"
         /\ sshCmds = <<>> /\ uniqueMachines = <<>> /\ requests = <<>>

C20_Witness ==
    /\ BootstrapFailed
    /\ Len(appsMachines) >= 2
    /\ appsMachines[1].id # appsMachines[2].id
    /\ Len(setups) = 1

\* The fixup loop has ended.
FixupsOver == "summary" \in Range(ops) \/ pc = "summary"

\* C21: no fixup failure is fatal.  Whatever commands failed, the loop goes
\* on: both commands are issued for every core machine, in order, the run
\* reaches the overview and the registration, and an error it returns
\* afterwards is a registration error.
C21_FixupFailuresNotFatal ==
    pc # "exited" =>
        /\ warnings <= Len(sshCmds)
        /\ Len(sshCmds) <= Len(FixupRules) * Len(coreMachines)
        /\ \A n \in DOMAIN sshCmds :
             /\ sshCmds[n].machine = coreMachines[((n - 1) \div 2) + 1].id
             /\ sshCmds[n].rule = FixupRules[((n - 1) % 2) + 1]
        /\ (warnings > 0 /\ pc \in {"returned", "panicked"}) =>
             /\ Len(sshCmds) = Len(FixupRules) * Len(coreMachines)
             /\ "summary" \in Range(ops)
             /\ "register" \in Range(ops)
             /\ err # NoErr => err[1] = "failed to register hosts"
        /\ FixupsOver => Len(sshCmds) = Len(FixupRules) * Len(coreMachines)

C21_Witness ==
    /\ pc = "returned" /\ err = NoErr
    /\ Len(coreMachines) = 2
    /\ Len(sshCmds) = 4
    /\ warnings = 4
    /\ Len(requests) >= 1

\* The stage names Install.Run puts in front of a cause.
StageNames ==
    { "failed to resolve configuration", "pre-install checks failed",
      "failed to create docker machine", "failed to provision components machines",
      "failed to setup swarm cluster", "error installing",
      "failed to provision pool hosts", "Error bootstrapping tsuru",
      "failed to register hosts" }

\* C22: every error an Install run returns holds the name of the stage that
\* failed, followed by the underlying cause.
C22_ErrorsNameTheirStage ==
    (pc = "returned" /\ err # NoErr) =>
        /\ Len(err) >= 2
        /\ err[1] \in StageNames

C22_Witness ==
    pc = "returned" /\ ops = <<"config">> /\ err = <<Cause>>

\* C23: resolving a file leaves the built-in default plan as it was, so that
\* in any sequence of resolver calls a call without a path returns the
\* default plan.
C23_DefaultsUnmodified ==
    (file = "" /\ pc = "checks") =>
        /\ config.CoreHosts = 1
        /\ config.AppsHosts = 1
        /\ config.DedicatedAppsHosts = FALSE
        /\ config.CoreDriversOpts = EmptyMap
        /\ config.AppsDriversOpts = EmptyMap

C23_Witness ==
    /\ file = "" /\ pc = "checks" /\ ops = <<"config">>
    /\ config.CoreHosts = MaxCoreHosts
    /\ config.DedicatedAppsHosts = TRUE

\* The machine that comes last under name n in core machines followed by
\* apps machines.
LastNamed(n) ==
    LET all == coreMachines \o appsMachines
        j == CHOOSE a \in DOMAIN all :
               /\ all[a].name = n
               /\ \A b \in DOMAIN all : all[b].name = n => b <= a
    IN  all[j]

\* C24: the registration sent for a name carries the machine that comes last
\* under that name in core machines followed by apps machines.
C24_LastWriteWins ==
    /\ \A j \in DOMAIN uniqueMachines :
         uniqueMachines[j] = LastNamed(uniqueMachines[j].name)
    /\ \A j \in DOMAIN requests :
         requests[j].machine = LastNamed(requests[j].name).id

C24_Witness ==
    /\ pc = "returned" /\ err = NoErr
    /\ \E j \in DOMAIN requests, c \in DOMAIN coreMachines, a \in DOMAIN appsMachines :
         /\ coreMachines[c].name = requests[j].name
         /\ appsMachines[a].name = requests[j].name
         /\ coreMachines[c].id # appsMachines[a].id
         /\ requests[j].machine = appsMachines[a].id
         /\ requests[j].ok

\* C25: a failed read of the SSH private key, the CA certificate or the CA
\* private key does not end the registration: the request of that machine is
\* sent with an empty value in that field and the loop goes on to the
\* remaining machines.
C25_ReadFailuresNotFatal ==
    /\ \A j \in DOMAIN requests :
         /\ \A f \in ReadFiles : requests[j][f] \in {"", "contents"}
         /\ requests[j].machine = uniqueMachines[j].id
         /\ j < Len(requests) => requests[j].ok
    /\ "register" \in Range(ops) =>
         /\ pc \in {"hosts", "returned"}
         /\ err \in {NoErr, <<"failed to register hosts", Cause>>}
         /\ (pc = "returned" /\ err = NoErr) => Len(requests) = Len(uniqueMachines)
         /\ (pc = "hosts" /\ requests # <<>>) =>
              (requests[Len(requests)].ok /\ Len(requests) < Len(uniqueMachines))

C25_Witness ==
    /\ pc = "returned" /\ err = NoErr
    /\ Len(requests) = 2
    /\ \A f \in ReadFiles : requests[1][f] = ""
    /\ requests[1].ok /\ requests[2].ok

\* The operations of a stage among those started, in order.
Started(stage) ==
    LET OfStage(op) == op = stage
    IN  SelectSeq(ops, OfStage)

\* C26: in a run where every stage succeeds the provisioner is invoked
\* coreHosts + appsHosts times when the apps pool is dedicated and
\* coreHosts + max(0, appsHosts - coreHosts) times otherwise; every core
\* invocation comes before the cluster is formed and every apps invocation
\* after the last component install.
C26_ProvisionerInvocations ==
    /\ (pc = "returned" /\ err = NoErr) =>
         LET short == IF config.AppsHosts > config.CoreHosts
                      THEN config.AppsHosts - config.CoreHosts ELSE 0
         IN  /\ Len(calls) = IF config.DedicatedAppsHosts
                             THEN config.CoreHosts + config.AppsHosts
                             ELSE config.CoreHosts + short
             /\ created = Len(calls)
             /\ Len(PoolCalls("core")) = config.CoreHosts
             /\ Len(Started("core")) = config.CoreHosts
             /\ Len(Started("apps")) = Len(calls) - config.CoreHosts
    /\ pc \in {"returned", "panicked"} =>
         /\ \A a \in 1..(Len(ops) - 1) :
              /\ ops[a] = "cluster" => ops[a + 1] \notin {"core"}
              /\ ops[a] \in {"component", "apps-pool", "apps"} =>
                   ops[a + 1] \notin {"core", "cluster"}
              /\ ops[a] \in {"apps-pool", "apps"} => ops[a + 1] # "component"
              /\ ops[a + 1] = "apps-pool" => ops[a] = "component"
         /\ "apps-pool" \in Range(ops) => installs = TsuruComponents
         /\ \A a \in 1..(Len(calls) - 1) :
              calls[a].call.pool = "apps" => calls[a + 1].call.pool = "apps"

C26_Witness ==
    /\ pc = "returned" /\ err = NoErr
    /\ ~config.DedicatedAppsHosts
    /\ config.CoreHosts = 2 /\ config.AppsHosts = 3
    /\ Len(calls) = 3
    /\ Len(PoolCalls("apps")) = 1

\* C27: when the pre-install check reports that the target exists, or fails
\* itself, the run ends with that error before the provisioner handle is
\* created: no machine is provisioned and no later stage is started.
C27_PreInstallCheckAborts ==
    (err # NoErr /\ err[1] = "pre-install checks failed") =>
        /\ pc = "returned"
        /\ ops = <<"config", "checks">>
        /\ err[2] \in {Cause, "tsuru target already exists"}
        /\ dockerMachine = "none"
        /\ calls = <<>> /\ created = 0 /\ live = {}
        /\ cluster = NoCluster /\ installs = <<>> /\ setups = <<>>
        /\ sshCmds = <<>> /\ requests = <<>>

C27_Witness ==
    /\ pc = "returned"
    /\ err = <<"pre-install checks failed", "tsuru target already exists">>
    /\ dockerMachine = "none"
    /\ file # ""

\* The operations of Uninstall.Run, in its order.
UninstallStages == <<"config", "docker-machine", "delete-all", "remove-target">>

\* C28: Uninstall deletes the machines before it removes the API target and
\* removes the target only after the deletion succeeded; when config
\* resolution, the creation of the provisioner or the deletion fails, that
\* error is returned and the removal of the target is never started.
C28_DeleteBeforeTargetRemoval ==
    /\ IsPrefix(uops, UninstallStages)
    /\ uerr # NoErr => (upc = "returned" /\ uerr = <<Cause>>)
    /\ (upc = "returned" /\ uerr = NoErr) => uops = UninstallStages
    /\ "remove-target" \in Range(uops) => (live = {} /\ upc = "returned")
    /\ (upc = "returned" /\ Len(uops) < Len(UninstallStages)) => uerr # NoErr

C28_Witness ==
    /\ upc = "returned"
    /\ uerr = <<Cause>>
    /\ uops = <<"config", "docker-machine", "delete-all">>
    /\ live # {}
    /\ deleted = {}

====
